---- MODULE Spec2Model ----
(***************************************************************************)
(* Model of src/methods/bo.py: the class BO (Bayesian Optimization on top  *)
(* of a GP regressor).  One run is: __init__(options), then                *)
(* bayesian_optimization(seed) with its outer loop, each iteration calling *)
(* optimize_restarts (hyperparameter fit) and get_suggestion (batch        *)
(* proposal).  The search space is one-dimensional; points, parameter      *)
(* vectors and objective values are small integers.                        *)
(***************************************************************************)
EXTENDS Integers, Sequences, FiniteSets, TLC

\* ---------------------------------------------------------------- bounds
MaxIter == 1            \* largest options['iterations']
MaxBatch == 1           \* largest options['batch_size']
MaxInit == 1            \* largest options['initial_size']
MaxModelRestarts == 2   \* largest options['model_restarts']
MaxOptRestarts == 2     \* largest options['opt_restarts']

\* mutant of Inf: a failed trial is given the lowest value instead
NegInf == 0 - 1000

\* float("inf") of line 161: larger than every objective value of the model
Inf == 1000

\* ------------------------------------------------------- values and None
NoneVal == [none |-> TRUE, v |-> 0]
NoneBatch == [none |-> TRUE, v |-> <<>>]
Some(v) == [none |-> FALSE, v |-> v]

\* the acquisition values solve can report: a low and a high one
AcqVals == {0, 1}

\* objective.bounds of a 1-D search space: <<lower, upper>> pairs
BoundsSet == {<<0, 1>>, <<1, 0>>}

Min(a, b) == IF a <= b THEN a ELSE b
Max(a, b) == IF a <= b THEN b ELSE a

\* np.random.uniform(bounds[i, 0], bounds[i, 1], k) of line 183 draws
\* low + (high - low) * u: a value between the two ends, whichever is larger
UniformRange(bounds) == Min(bounds[1], bounds[2])..Max(bounds[1], bounds[2])

\* random_sample(bounds, k): the k x 1 arrays it can return (k >= 0)
random_sample(bounds, k) == [1..k -> UniformRange(bounds)]

\* the model's _objective (negative log marginal likelihood) at a free state:
\* a fixed surface over the free states 0..3, on which states 1 and 2 share
\* the smallest value and state 3 is worse than the initial state 0
objSurface == <<1, 0, 0, 2>>
Params == 0..(Len(objSurface) - 1)
obj(p) == objSurface[p + 1]

\* mutant of FirstColumn: the auxiliary column is taken instead
FirstColumn_aux(Ys) == [k \in 1..Len(Ys) |-> <<Ys[k][2]>>]

\* y[:, 0:1]: the first column of an output array, still two-dimensional
FirstColumn(Ys) == [k \in 1..Len(Ys) |-> <<Ys[k][1]>>]

\* mutant of concatenate: the new rows replace the history
concatenate_overwrite(A, B) == B

\* mutant of concatenate: the new rows are put in front
concatenate_prepend(A, B) == B \o A

\* np.concatenate((A, B)) of lines 82-83
concatenate(A, B) == A \o B

RECURSIVE SumSeq(_)
SumSeq(s) == IF s = <<>> THEN 0 ELSE Head(s) + SumSeq(Tail(s))

SumSq(s) == SumSeq([k \in 1..Len(s) |-> s[k] * s[k]])

\* Y[:, 0]: column 0 of an array as a flat vector
Column0(Y) == [k \in 1..Len(Y) |-> Y[k][1]]

\* n^2 * variance of a column: n * sum(y^2) - sum(y)^2; np.std(Y[:, 0]) > 0
\* exactly when this is positive
StdRadicand(col) == (Len(col) * SumSq(col)) - (SumSeq(col) * SumSeq(col))

\* a row with its column 0 replaced by v, the other columns as they are
WithColumn0(row, v) == [c \in 1..Len(row) |-> IF c = 1 THEN v ELSE row[c]]

\* a float array as normalize returns it: a column 0 entry num / sqrt(rad) is
\* kept as the pair <<num, rad>>, so an entry y left alone is <<y, 1>>
AsReturned(Y) == [k \in 1..Len(Y) |-> WithColumn0(Y[k], <<Y[k][1], 1>>)]

\* mutant of normalize: the guard on the standard deviation is left out
normalize_unguarded(normalize_Y, Y) ==
    IF normalize_Y
    THEN [k \in 1..Len(Y) |->
             WithColumn0(Y[k], <<(Len(Y) * Y[k][1]) - SumSeq(Column0(Y)),
                                 StdRadicand(Column0(Y))>>)]
    ELSE AsReturned(Y)

\* normalize(Y) of lines 187-201, on a copy of Y:
\* (y - mean) / std = (n*y - sum) / sqrt(n*sumsq - sum^2)
normalize(normalize_Y, Y) ==
    IF normalize_Y /\ StdRadicand(Column0(Y)) > 0
    THEN [k \in 1..Len(Y) |->
             WithColumn0(Y[k], <<(Len(Y) * Y[k][1]) - SumSeq(Column0(Y)),
                                 StdRadicand(Column0(Y))>>)]
    ELSE AsReturned(Y)

\* ----------------------------------------------------------------- state
VARIABLES
    options,    \* the configuration bundle given to __init__
    seed,       \* the argument of bayesian_optimization
    pc,         \* position of the run
    err,        \* the exception that ended the run, "" if none
    X_all,      \* all evaluated points
    y_all,      \* their rows of function values
    evals,      \* number of calls of objective.f so far
    selfX,      \* self.X, the surrogate's training inputs
    selfY,      \* self.Y, the surrogate's training targets
    free_state, \* the surrogate's parameter vector (get_free_state)
    samples,    \* self.samples: number of posterior samples held, 0 if unset
    i,          \* outer loop index of bayesian_optimization
    par_min,    \* optimize_restarts: incumbent parameters
    val_min,    \* optimize_restarts: incumbent objective value
    x,          \* optimize_restarts: local x (unbound until first read-back)
    r,          \* optimize_restarts: loop index
    X,          \* get_suggestion: incumbent batch, None at first
    y,          \* get_suggestion: incumbent acquisition value
    j,          \* get_suggestion: loop index
    X_new,      \* bayesian_optimization: the batch get_suggestion returned
    stderr,     \* the trial indices printed to sys.stderr in this iteration
    entry,      \* history: free state at entry of the latest optimize_restarts
    fitLog,     \* history: trials of the running optimize_restarts
    sugLog      \* history: trials of the running get_suggestion

vars == <<options, seed, pc, err, X_all, y_all, evals, selfX, selfY,
          free_state, samples, i, par_min, val_min, x, r, X, y, j, X_new,
          stderr, entry, fitLog, sugLog>>

dataVars == <<X_all, y_all, evals, selfX, selfY, X_new>>
fitVars == <<par_min, val_min, x, r, entry, fitLog>>
sugVars == <<X, y, j, sugLog>>

\* the option bundles a caller can pass, over the given flag settings;
\* __init__ accepts every one of them
OptionsOver(sampleCounts, normalizeFlags) ==
    [iterations : -1..MaxIter,
     batch_size : -1..MaxBatch,
     initial_size : -1..MaxInit,
     model_restarts : -1..MaxModelRestarts,
     opt_restarts : -1..MaxOptRestarts,
     samples : sampleCounts,
     normalize_Y : normalizeFlags,
     bounds : BoundsSet,
     nl_solver : {"known", "unknown"},
     objective : {"quadratic"}]

\* runs that draw one posterior sample per iteration and normalize
OptionSets == OptionsOver({1}, {TRUE})

\* objective.f on one point: a row <<target, auxiliary column>>; the target
\* is x^2 + 7 for the quadratic objective and 7 for the constant one
f_row(pt) ==
    IF options.objective = "constant"
    THEN <<7, pt + 3>>
    ELSE <<(pt * pt) + 7, pt + 3>>

\* objective.f(X): one row per input row
f(Xs) == [k \in 1..Len(Xs) |-> f_row(Xs[k])]

\* the free state the kernel's default parameters give a new model
InitialState == 0

\* seeds: a plain integer, or an integer object that can also be called
Seeds == {"int", "callable_int"}

\* the state after the caller has chosen its options and seed
InitFor(optionSets) ==
    /\ options \in optionSets
    /\ seed \in Seeds
    /\ pc = "new"
    /\ err = ""
    /\ X_all = <<>>
    /\ y_all = <<>>
    /\ evals = 0
    /\ selfX = <<>>
    /\ selfY = <<>>
    /\ free_state = InitialState
    /\ samples = 0
    /\ i = 0
    /\ par_min = 0
    /\ val_min = 0
    /\ x = NoneVal
    /\ r = 0
    /\ X = NoneBatch
    /\ y = NoneVal
    /\ j = 0
    /\ X_new = <<>>
    /\ stderr = <<>>
    /\ entry = 0
    /\ fitLog = <<>>
    /\ sugLog = <<>>

Init == InitFor(OptionSets)

\* an exception leaves bayesian_optimization: nothing runs after it
Raise(kind) ==
    /\ pc' = "raised"
    /\ err' = kind

\* mutant of Less: the comparison is turned around
Less_reversed(a, b) == a > b

\* mutant of Less: a tie replaces the incumbent
Less_or_equal(a, b) == a <= b

\* Python's < on floats, float("inf") included
Less(a, b) == a < b

\* ----------------------------------------------------------- __init__
\* lines 15-38: unpacks the options; no option is inspected or rejected
Construct ==
    /\ pc = "new"
    /\ pc' = "constructed"
    /\ UNCHANGED <<options, seed, err, dataVars, free_state, samples, i,
                   fitVars, sugVars, stderr>>

\* ------------------------------------------------ bayesian_optimization
\* seed(seed) of line 48 calls the argument itself
CallSeed(s) == IF s = "callable_int" THEN "ok" ELSE "TypeError"

\* lines 44-49
SetSeeds ==
    /\ pc = "constructed"
    /\ IF CallSeed(seed) = "ok"
       THEN pc' = "seeded" /\ err' = err
       ELSE Raise(CallSeed(seed))
    /\ UNCHANGED <<options, seed, dataVars, free_state, samples, i,
                   fitVars, sugVars, stderr>>

\* lines 52-66: np.zeros((k, n)) of line 181 refuses a negative k
Initialize ==
    /\ pc = "seeded"
    /\ IF options.initial_size < 0
       THEN /\ Raise("ValueError")
            /\ UNCHANGED dataVars
       ELSE \E X0 \in random_sample(options.bounds, options.initial_size) :
            /\ pc' = "loop"
            /\ err' = err
            /\ evals' = evals + 1
            /\ selfX' = X0
            /\ selfY' = normalize(options.normalize_Y, FirstColumn(f(X0)))
            /\ X_all' = X0
            /\ y_all' = f(X0)
            /\ X_new' = X_new
    /\ i' = 0
    /\ UNCHANGED <<options, seed, free_state, samples, fitVars, sugVars,
                   stderr>>

\* mutant of Return: the loop is left one iteration early
Return_early ==
    /\ pc = "loop"
    /\ ~(i + 1 < options.iterations)
    /\ pc' = "done"
    /\ UNCHANGED <<options, seed, err, dataVars, free_state, samples, i,
                   fitVars, sugVars, stderr>>

\* line 68 when range(iterations) is exhausted, then line 92
Return ==
    /\ pc = "loop"
    /\ ~(i < options.iterations)
    /\ pc' = "done"
    /\ UNCHANGED <<options, seed, err, dataVars, free_state, samples, i,
                   fitVars, sugVars, stderr>>

\* ------------------------------------------------------ optimize_restarts
\* lines 68-69 and 146-151: the incumbent is the state held at entry
optimize_restarts_enter ==
    /\ pc = "loop"
    /\ i < options.iterations
    /\ pc' = "fit"
    /\ par_min' = free_state
    /\ val_min' = obj(free_state)
    /\ x' = NoneVal
    /\ r' = 0
    /\ entry' = free_state
    /\ fitLog' = <<>>
    /\ stderr' = <<>>
    /\ UNCHANGED <<options, seed, err, dataVars, free_state, samples, i,
                   sugVars>>

\* lines 163-165 after a trial that left the local x as xv and val as val
KeepBest(xv, val) ==
    IF Less(val, val_min)
    THEN IF xv.none
         THEN /\ Raise("UnboundLocalError")
              /\ UNCHANGED <<par_min, val_min>>
         ELSE /\ par_min' = xv.v
              /\ val_min' = val
              /\ pc' = pc
              /\ err' = err
    ELSE /\ UNCHANGED <<par_min, val_min, pc, err>>

\* lines 154-157 run to the end: the optimizer stops at p
FitTrialSucceeds ==
    /\ pc = "fit"
    /\ r < options.model_restarts
    /\ \E p \in Params :
        /\ free_state' = p
        /\ x' = Some(p)
        /\ fitLog' = Append(fitLog, [kind |-> "ok", x |-> p, val |-> obj(p)])
        /\ KeepBest(Some(p), obj(p))
    /\ r' = r + 1
    /\ UNCHANGED <<options, seed, dataVars, samples, i, sugVars, stderr,
                   entry>>

\* lines 154-155 throw (randomize or optimize): x keeps its old binding,
\* the model is left at whatever state p it had reached; line 161
FitTrialFailsEarly ==
    /\ pc = "fit"
    /\ r < options.model_restarts
    /\ \E p \in Params :
        /\ free_state' = p
        /\ x' = x
        /\ fitLog' = Append(fitLog, [kind |-> "fail", x |-> 0, val |-> Inf])
        /\ KeepBest(x, Inf)
    /\ r' = r + 1
    /\ UNCHANGED <<options, seed, dataVars, samples, i, sugVars, stderr,
                   entry>>

\* line 157 throws (objective read-back) after x was bound at 156; line 161
FitTrialFailsLate ==
    /\ pc = "fit"
    /\ r < options.model_restarts
    /\ \E p \in Params :
        /\ free_state' = p
        /\ x' = Some(p)
        /\ fitLog' = Append(fitLog, [kind |-> "fail", x |-> 0, val |-> Inf])
        /\ KeepBest(Some(p), Inf)
    /\ r' = r + 1
    /\ UNCHANGED <<options, seed, dataVars, samples, i, sugVars, stderr,
                   entry>>

\* lines 158-159: KeyboardInterrupt inside the try is re-raised
FitTrialInterrupted ==
    /\ pc = "fit"
    /\ r < options.model_restarts
    /\ \E p \in Params :
        /\ free_state' = p
        /\ fitLog' = Append(fitLog,
                            [kind |-> "interrupt", x |-> 0, val |-> Inf])
    /\ Raise("KeyboardInterrupt")
    /\ UNCHANGED <<options, seed, dataVars, samples, i, par_min, val_min, x,
                   r, entry, sugVars, stderr>>

\* the locals of optimize_restarts end with the call
FitLocalsDropped ==
    /\ par_min' = 0
    /\ val_min' = 0
    /\ x' = NoneVal
    /\ r' = 0

\* the locals of get_suggestion end with the call
SuggestLocalsDropped ==
    /\ X' = NoneBatch
    /\ y' = NoneVal
    /\ j' = 0

\* line 167
optimize_restarts_exit ==
    /\ pc = "fit"
    /\ ~(r < options.model_restarts)
    /\ free_state' = par_min
    /\ pc' = "sample"
    /\ FitLocalsDropped
    /\ fitLog' = <<>>
    /\ UNCHANGED <<options, seed, err, dataVars, samples, i, sugVars, stderr,
                   entry>>

\* mutant of Sample: the model is left at the last posterior sample drawn
Sample_into_model ==
    /\ pc = "sample"
    /\ samples' = IF options.samples > 0 THEN options.samples ELSE samples
    /\ free_state' = IF options.samples > 0
                     THEN Len(objSurface) - 1
                     ELSE free_state
    /\ pc' = "suggest_enter"
    /\ entry' = 0
    /\ UNCHANGED <<options, seed, err, dataVars, i, par_min,
                   val_min, x, r, fitLog, sugVars, stderr>>

\* lines 71-74: the posterior samples are stored in self.samples, drawn by
\* the inherited sample() from the fitted state, which it leaves in place; the
\* history of the fit that just returned is closed here
Sample ==
    /\ pc = "sample"
    /\ samples' = IF options.samples > 0 THEN options.samples ELSE samples
    /\ pc' = "suggest_enter"
    /\ entry' = 0
    /\ UNCHANGED <<options, seed, err, dataVars, free_state, i, par_min,
                   val_min, x, r, fitLog, sugVars, stderr>>

\* --------------------------------------------------------- get_suggestion
\* lines 95-99: np.tile(self.bounds, (batch_size, 1)) refuses a negative count
get_suggestion_enter ==
    /\ pc = "suggest_enter"
    /\ X' = NoneBatch
    /\ y' = NoneVal
    /\ j' = 0
    /\ sugLog' = <<>>
    /\ IF options.batch_size < 0
       THEN Raise("ValueError")
       ELSE pc' = "suggest" /\ err' = err
    /\ UNCHANGED <<options, seed, dataVars, free_state, samples, i, fitVars,
                   stderr>>

\* mutant of KeepBestBatch: the latest successful trial always wins
KeepBestBatch_latest(X0, y0) ==
    X' = Some(X0) /\ y' = Some(y0)

\* lines 116-117
KeepBestBatch(X0, y0) ==
    IF X.none \/ Less(y0, y.v)
    THEN X' = Some(X0) /\ y' = Some(y0)
    ELSE UNCHANGED <<X, y>>

\* solve(..., solver=options['nl_solver']) of lines 108-112: how a call can
\* end; a solver identifier it does not know is a failure of the call
SolveOutcomes(nl_solver) ==
    IF nl_solver = "known"
    THEN {"ok", "fail", "interrupt"}
    ELSE {"fail", "interrupt"}

\* mutant of SuggestTrialSucceeds: one trial runs even with no restart asked
SuggestTrialSucceeds_at_least_once ==
    /\ pc = "suggest"
    /\ j < Max(options.opt_restarts, 1)
    /\ "ok" \in SolveOutcomes(options.nl_solver)
    /\ \E X0 \in random_sample(options.bounds, options.batch_size),
          y0 \in AcqVals :
        /\ KeepBestBatch(X0, y0)
        /\ sugLog' = Append(sugLog, [kind |-> "ok", X |-> X0, y |-> y0])
    /\ j' = j + 1
    /\ UNCHANGED <<options, seed, pc, err, dataVars, free_state, samples, i,
                   fitVars, stderr>>

\* lines 105-117: solve returns a batch X0 with acquisition value y0
SuggestTrialSucceeds ==
    /\ pc = "suggest"
    /\ j < options.opt_restarts
    /\ "ok" \in SolveOutcomes(options.nl_solver)
    /\ \E X0 \in random_sample(options.bounds, options.batch_size),
          y0 \in AcqVals :
        /\ KeepBestBatch(X0, y0)
        /\ sugLog' = Append(sugLog, [kind |-> "ok", X |-> X0, y |-> y0])
    /\ j' = j + 1
    /\ UNCHANGED <<options, seed, pc, err, dataVars, free_state, samples, i,
                   fitVars, stderr>>

\* mutant of SuggestTrialFails: the failed trial is dropped without a message
SuggestTrialFails_silent ==
    /\ pc = "suggest"
    /\ j < options.opt_restarts
    /\ "fail" \in SolveOutcomes(options.nl_solver)
    /\ sugLog' = Append(sugLog, [kind |-> "fail", X |-> <<>>, y |-> 0])
    /\ j' = j + 1
    /\ UNCHANGED <<options, seed, pc, err, dataVars, free_state, samples, i,
                   fitVars, X, y, stderr>>

\* lines 120-123: any other exception of solve is reported on stderr
SuggestTrialFails ==
    /\ pc = "suggest"
    /\ j < options.opt_restarts
    /\ "fail" \in SolveOutcomes(options.nl_solver)
    /\ stderr' = Append(stderr, j)
    /\ sugLog' = Append(sugLog, [kind |-> "fail", X |-> <<>>, y |-> 0])
    /\ j' = j + 1
    /\ UNCHANGED <<options, seed, pc, err, dataVars, free_state, samples, i,
                   fitVars, X, y>>

\* mutant of SuggestTrialInterrupted: the bare except swallows the interrupt
SuggestTrialInterrupted_swallowed ==
    /\ pc = "suggest"
    /\ j < options.opt_restarts
    /\ stderr' = Append(stderr, j)
    /\ sugLog' = Append(sugLog, [kind |-> "interrupt", X |-> <<>>, y |-> 0])
    /\ j' = j + 1
    /\ UNCHANGED <<options, seed, pc, err, dataVars, free_state, samples, i,
                   fitVars, X, y>>

\* lines 118-119
SuggestTrialInterrupted ==
    /\ pc = "suggest"
    /\ j < options.opt_restarts
    /\ "interrupt" \in SolveOutcomes(options.nl_solver)
    /\ sugLog' = Append(sugLog, [kind |-> "interrupt", X |-> <<>>, y |-> 0])
    /\ Raise("KeyboardInterrupt")
    /\ UNCHANGED <<options, seed, dataVars, free_state, samples, i, fitVars,
                   X, y, j, stderr>>

\* mutant of get_suggestion_exit: the assert of line 126 is missing
get_suggestion_exit_unasserted ==
    /\ pc = "suggest"
    /\ ~(j < options.opt_restarts)
    /\ pc' = "evaluate"
    /\ err' = err
    /\ X_new' = X.v
    /\ X' = NoneBatch
    /\ y' = NoneVal
    /\ j' = 0
    /\ sugLog' = <<>>
    /\ UNCHANGED <<options, seed, X_all, y_all, evals, selfX, selfY,
                   free_state, samples, i, fitVars, stderr>>

\* lines 126-128
get_suggestion_exit ==
    /\ pc = "suggest"
    /\ ~(j < options.opt_restarts)
    /\ IF X.none
       THEN Raise("AssertionError") /\ X_new' = X_new
       ELSE pc' = "evaluate" /\ err' = err /\ X_new' = X.v
    /\ SuggestLocalsDropped
    /\ sugLog' = <<>>
    /\ UNCHANGED <<options, seed, X_all, y_all, evals, selfX, selfY,
                   free_state, samples, i, fitVars, stderr>>

\* lines 78-90: y_new = objective.f(X_new), both appended, model updated
EvaluateAndAppend ==
    /\ pc = "evaluate"
    /\ evals' = evals + 1
    /\ X_all' = concatenate(X_all, X_new)
    /\ y_all' = concatenate(y_all, f(X_new))
    /\ selfX' = concatenate(X_all, X_new)
    /\ selfY' = normalize(options.normalize_Y,
                          FirstColumn(concatenate(y_all, f(X_new))))
    /\ X_new' = X_new
    /\ i' = i + 1
    /\ pc' = "loop"
    /\ UNCHANGED <<options, seed, err, free_state, samples, fitVars, sugVars,
                   stderr>>

Next ==
    \/ Construct
    \/ SetSeeds
    \/ Initialize
    \/ Return
    \/ optimize_restarts_enter
    \/ FitTrialSucceeds
    \/ FitTrialFailsEarly
    \/ FitTrialFailsLate
    \/ FitTrialInterrupted
    \/ optimize_restarts_exit
    \/ Sample
    \/ get_suggestion_enter
    \/ SuggestTrialSucceeds
    \/ SuggestTrialFails
    \/ SuggestTrialInterrupted
    \/ get_suggestion_exit
    \/ EvaluateAndAppend

Spec == Init /\ [][Next]_vars

\* runs with well-formed counts and one trial per restart loop, over both
\* objectives and both settings of normalize_Y and of posterior sampling
FlagOptionSets ==
    [iterations : 0..MaxIter,
     batch_size : 0..MaxBatch,
     initial_size : 0..MaxInit,
     model_restarts : {1},
     opt_restarts : {1},
     samples : {0, 1},
     normalize_Y : BOOLEAN,
     bounds : {<<0, 1>>},
     nl_solver : {"known"},
     objective : {"quadratic", "constant"}]

FlagInit == InitFor(FlagOptionSets)

FlagSpec == FlagInit /\ [][Next]_vars

\* ------------------------------------------------------------ the claims
\* a configuration the entry point documents as well-formed
ValidOptions ==
    /\ options.bounds[1] <= options.bounds[2]
    /\ options.iterations >= 0
    /\ options.batch_size >= 0
    /\ options.initial_size >= 0
    /\ options.model_restarts >= 0
    /\ options.opt_restarts >= 0
    /\ options.nl_solver = "known"

\* the initial batch has been evaluated and the run has not been aborted
InLoop == pc \in {"loop", "fit", "sample", "suggest_enter", "suggest",
                  "evaluate", "done"}

IsPrefix(a, b) ==
    /\ Len(a) <= Len(b)
    /\ \A k \in 1..Len(a) : a[k] = b[k]

\* C1: X_all and y_all always have the same number of rows; after
\* initialization and after each outer iteration k that number is
\* initial_size + k * batch_size; the returned dataset of a run with
\* n >= 0 configured iterations has initial_size + n * batch_size rows.
C1_DatasetLength ==
    /\ Len(X_all) = Len(y_all)
    /\ InLoop =>
         Len(X_all) = options.initial_size + (i * options.batch_size)
    /\ (pc = "done" /\ options.iterations >= 0) =>
         Len(y_all) = options.initial_size
                        + (options.iterations * options.batch_size)

C1_Witness ==
    /\ pc = "done"
    /\ options.iterations = 1
    /\ options.batch_size = 1
    /\ options.initial_size = 1
    /\ Len(X_all) = 2
    /\ Len(y_all) = 2

\* C2: every step leaves the old (X_all, y_all) as a prefix of the new one,
\* and the step that ends an outer iteration adds exactly the rows of the
\* proposed batch X_new and of its evaluations, at the end.
C2_AppendOnly ==
    [][/\ IsPrefix(X_all, X_all')
       /\ IsPrefix(y_all, y_all')
       /\ (pc = "evaluate" /\ pc' = "loop") =>
            /\ Len(X_all') = Len(X_all) + Len(X_new)
            /\ Len(y_all') = Len(y_all) + Len(X_new)
            /\ \A k \in 1..Len(X_new) :
                 /\ X_all'[Len(X_all) + k] = X_new[k]
                 /\ y_all'[Len(y_all) + k] = f_row(X_new[k])]_vars

C2_Witness ==
    /\ pc = "loop"
    /\ i = 1
    /\ Len(X_all) = 2
    /\ X_new = <<X_all[2]>>
    /\ X_all[1] # X_all[2]

\* C3 (as claimed): with a valid configuration and an integer seed, a run
\* that is neither cancelled nor left without a successful acquisition
\* trial keeps going until it returns after exactly `iterations` outer
\* iterations.
C3_RunReturns ==
    (ValidOptions /\ seed = "int"
       /\ err \notin {"KeyboardInterrupt", "AssertionError"}) =>
      \/ ENABLED Next
      \/ (pc = "done" /\ i = options.iterations /\ evals = i + 1)

\* C4: when optimize_restarts has returned, the model's parameter vector is
\* no worse by the model's objective than the one held at entry, and with
\* restarts = 0 it is the one held at entry.
C4_NeverWorse ==
    pc = "sample" =>
      /\ obj(free_state) <= obj(entry)
      /\ options.model_restarts = 0 => free_state = entry

C4_Witness ==
    /\ pc = "sample"
    /\ options.model_restarts = 2
    /\ obj(free_state) < obj(entry)

\* the step of optimize_restarts in which a trial threw a failure
FailedFitTrialStep ==
    /\ pc = "fit"
    /\ Len(fitLog') = Len(fitLog) + 1
    /\ fitLog'[Len(fitLog')].kind = "fail"

\* C5: a trial of optimize_restarts that throws a failure leaves val_min and
\* par_min as they were and the fit goes on with the next trial, also when
\* it is the first trial; a fit that has returned has run all its trials
\* and has set the model to the incumbent found.
C5_FailedTrialIgnored ==
    /\ [][FailedFitTrialStep =>
            /\ par_min' = par_min
            /\ val_min' = val_min
            /\ pc' = "fit"
            /\ r' = r + 1]_vars
    /\ [][(pc = "fit" /\ pc' = "sample") =>
            /\ free_state' = par_min
            /\ Len(fitLog) = Max(options.model_restarts, 0)]_vars

C5_Witness ==
    /\ pc = "fit"
    /\ r = 2
    /\ x = Some(par_min)
    /\ fitLog[1].kind = "fail"
    /\ fitLog[2].kind = "ok"
    /\ par_min = fitLog[2].x
    /\ par_min # entry

\* the candidates of a fit, in order: the entry parameters, then the trials
\* (a failed trial counts with value +infinity)
FitCandidates ==
    <<[x |-> entry, val |-> obj(entry)]>>
      \o [k \in 1..Len(fitLog) |-> [x |-> fitLog[k].x, val |-> fitLog[k].val]]

\* index of the earliest candidate of smallest value
EarliestSmallest(c) ==
    CHOOSE k \in 1..Len(c) :
      /\ \A m \in 1..Len(c) : c[k].val <= c[m].val
      /\ \A m \in 1..(k - 1) : c[m].val > c[k].val

\* C6: optimize_restarts leaves the model at the candidate of smallest
\* objective value among [entry, trial 1, ..., trial N], the earliest one
\* when several share that value.
C6_EarliestBest ==
    /\ [](pc = "fit" =>
            par_min = FitCandidates[EarliestSmallest(FitCandidates)].x)
    /\ [][(pc = "fit" /\ pc' = "sample") =>
            free_state' = FitCandidates[EarliestSmallest(FitCandidates)].x]_vars

C6_Witness ==
    /\ pc = "fit"
    /\ r = options.model_restarts
    /\ Len(fitLog) = 2
    /\ fitLog[1].kind = "ok"
    /\ fitLog[2].kind = "ok"
    /\ fitLog[1].val = fitLog[2].val
    /\ fitLog[1].x # fitLog[2].x
    /\ fitLog[1].val < obj(entry)
    /\ par_min = fitLog[1].x

\* the trials of the current get_suggestion in which solve returned
SuccessfulTrials == {k \in 1..Len(sugLog) : sugLog[k].kind = "ok"}

\* the earliest successful trial of lowest acquisition value
BestTrial ==
    CHOOSE k \in SuccessfulTrials :
      \A m \in SuccessfulTrials :
        \/ sugLog[k].y < sugLog[m].y
        \/ (sugLog[k].y = sugLog[m].y /\ k <= m)

\* C7: while get_suggestion runs, its incumbent is unset exactly as long as
\* no trial has succeeded, and otherwise is the solution of the earliest
\* successful trial of lowest acquisition value (so the first success is
\* taken whatever its value, and a failed trial changes nothing); the batch
\* it returns is that incumbent.
C7_BestSuccessfulTrial ==
    /\ [](pc = "suggest" =>
            /\ X.none <=> SuccessfulTrials = {}
            /\ ~X.none => /\ X.v = sugLog[BestTrial].X
                          /\ y.v = sugLog[BestTrial].y)
    /\ [][(pc = "suggest" /\ pc' = "evaluate") =>
            /\ SuccessfulTrials # {}
            /\ X_new' = sugLog[BestTrial].X]_vars

C7_Witness ==
    /\ pc = "suggest"
    /\ j = options.opt_restarts
    /\ Len(sugLog) = 2
    /\ sugLog[1].kind = "ok"
    /\ sugLog[2].kind = "ok"
    /\ sugLog[1].y = sugLog[2].y
    /\ sugLog[1].X # sugLog[2].X
    /\ X = Some(sugLog[1].X)

\* get_suggestion has run all of its opt_restarts >= 1 trials and each failed
AllTrialsFailed ==
    /\ pc = "suggest"
    /\ ~(j < options.opt_restarts)
    /\ options.opt_restarts >= 1
    /\ \A k \in 1..Len(sugLog) : sugLog[k].kind = "fail"

\* C8: when every acquisition trial of an outer iteration has failed,
\* get_suggestion raises instead of returning a batch and the run ends
\* there: the objective is not evaluated, nothing is appended, no later
\* iteration runs.
C8_AllTrialsFailedAborts ==
    /\ [][AllTrialsFailed =>
            /\ pc' = "raised"
            /\ err' = "AssertionError"
            /\ UNCHANGED <<evals, X_all, y_all, i>>]_vars
    /\ [](err = "AssertionError" => (pc = "raised" /\ ~ENABLED Next))

C8_Witness ==
    /\ pc = "raised"
    /\ err = "AssertionError"
    /\ options.nl_solver = "known"
    /\ options.opt_restarts = 2
    /\ stderr = <<0, 1>>
    /\ i = 0
    /\ evals = 1
    /\ Len(X_all) = 1

\* the step in which a trial of either restart loop was interrupted
InterruptedTrialStep ==
    \/ /\ pc = "fit"
       /\ Len(fitLog') = Len(fitLog) + 1
       /\ fitLog'[Len(fitLog')].kind = "interrupt"
    \/ /\ pc = "suggest"
       /\ Len(sugLog') = Len(sugLog) + 1
       /\ sugLog'[Len(sugLog')].kind = "interrupt"

\* C9: a KeyboardInterrupt in a trial of optimize_restarts or get_suggestion
\* is not handled as a failed trial: it leaves the incumbents, the loop
\* indices, the dataset and stderr alone and ends the run at once; no
\* further trial or outer iteration follows.
C9_InterruptPropagates ==
    /\ [][InterruptedTrialStep =>
            /\ pc' = "raised"
            /\ err' = "KeyboardInterrupt"
            /\ UNCHANGED <<par_min, val_min, r, X, y, j, i, X_all, y_all,
                           evals, stderr>>]_vars
    /\ [](err = "KeyboardInterrupt" => (pc = "raised" /\ ~ENABLED Next))

C9_Witness ==
    /\ pc = "raised"
    /\ err = "KeyboardInterrupt"
    /\ Len(sugLog) = 2
    /\ sugLog[1].kind = "ok"
    /\ sugLog[2].kind = "interrupt"
    /\ ~X.none

\* C10 (as claimed): a malformed configuration is rejected before the
\* objective is evaluated even once, so no run with one evaluates the
\* objective or returns.
C10_MalformedRejected ==
    ~ValidOptions => (evals = 0 /\ pc # "done")

\* the step in which a trial of get_suggestion failed without an interrupt
FailedSuggestTrialStep ==
    /\ pc = "suggest"
    /\ Len(sugLog') = Len(sugLog) + 1
    /\ sugLog'[Len(sugLog')].kind = "fail"

FailedTrials(log) == {k \in 1..Len(log) : log[k].kind = "fail"}

\* C11 (as claimed): every failed trial of either restart loop is reported:
\* while a restart loop runs, stderr holds one diagnostic for each of its
\* failed trials.
C11_EveryFailureReported ==
    /\ pc = "fit" => Len(stderr) = Cardinality(FailedTrials(fitLog))
    /\ pc = "suggest" => Len(stderr) = Cardinality(FailedTrials(sugLog))

\* C11 (amended): a failed trial of either restart loop neither aborts the
\* run nor changes the outer iteration index or the dataset, and the loop
\* goes on with its next trial; a get_suggestion with at least one successful
\* trial hands its batch to the evaluation; a run that returns has performed
\* exactly `iterations` outer iterations and returns
\* initial_size + iterations * batch_size rows, failures or not.  A failed
\* acquisition trial is reported on stderr with its trial index; a failed
\* fit trial is dropped without any diagnostic.
C11_FailuresDoNotAbort ==
    /\ [][FailedFitTrialStep =>
            /\ pc' = "fit"
            /\ r' = r + 1
            /\ UNCHANGED <<i, err, X_all, y_all, evals, stderr>>]_vars
    /\ [][FailedSuggestTrialStep =>
            /\ pc' = "suggest"
            /\ j' = j + 1
            /\ stderr' = Append(stderr, j)
            /\ UNCHANGED <<i, err, X_all, y_all, evals>>]_vars
    /\ [][(pc = "suggest" /\ ~(j < options.opt_restarts)
                           /\ SuccessfulTrials # {}) =>
            (pc' = "evaluate" /\ err' = "")]_vars
    /\ [](pc = "done" =>
            /\ i = Max(options.iterations, 0)
            /\ Len(X_all) = options.initial_size + (i * options.batch_size)
            /\ Len(y_all) = Len(X_all))

\* a run that returned although an acquisition trial of its last iteration
\* had failed and been reported
C11_Witness ==
    /\ pc = "done"
    /\ options.iterations = 1
    /\ options.opt_restarts = 2
    /\ i = 1
    /\ stderr = <<0>>
    /\ Len(X_all) = options.initial_size + options.batch_size

\* column 0 of Y holds one value only: its standard deviation is 0
ConstantColumn0(Y) == \A k \in 1..Len(Y) : Y[k][1] = Y[1][1]

\* what normalize owes for an input Y: same shape, columns 1..m-1 as in Y,
\* and Y itself when normalization is off or column 0 is constant
NormalizeContract(Y) ==
    LET R == normalize(options.normalize_Y, Y) IN
    /\ Len(R) = Len(Y)
    /\ \A k \in 1..Len(Y) :
          /\ Len(R[k]) = Len(Y[k])
          /\ \A c \in 2..Len(Y[k]) : R[k][c] = Y[k][c]
    /\ (~options.normalize_Y \/ ConstantColumn0(Y)) => R = AsReturned(Y)

C13_SeedFixesDraws ==
    /\ (seed = "int" /\ pc = "raised") => err # "TypeError"
    /\ pc = "seeded" =>
          Cardinality(random_sample(options.bounds,
                                    Max(options.initial_size, 0))) = 1

\* the order of the stages of a run: <<stage, next stage>>
StageOrder ==
    {<<"new", "constructed">>, <<"constructed", "seeded">>,
     <<"seeded", "loop">>, <<"loop", "fit">>, <<"fit", "sample">>,
     <<"sample", "suggest_enter">>, <<"suggest_enter", "suggest">>,
     <<"suggest", "evaluate">>, <<"evaluate", "loop">>, <<"loop", "done">>}

\* the stages of one outer iteration
IterationStages == {"fit", "sample", "suggest_enter", "suggest", "evaluate"}

ObjectiveValues == [k \in 1..Len(y_all) |-> <<y_all[k][1]>>]

\* C15: from initialization on, so at the start of every fit, at the start
\* of every batch proposal and at return, the surrogate's training inputs
\* are the whole of X_all and its training targets are normalize applied to
\* the first column of the whole of y_all: one target per evaluated point,
\* one column wide, the auxiliary column never among them.
C15_ModelHoldsHistory ==
    InLoop =>
        /\ selfX = X_all
        /\ selfY = normalize(options.normalize_Y, ObjectiveValues)
        /\ Len(selfY) = Len(X_all)
        /\ \A k \in 1..Len(selfY) : Len(selfY[k]) = 1

\* a returned run whose two objective
\* values 7 and 8 were normalized to -1 and 1
C15_Witness ==
    /\ pc = "done"
    /\ options.normalize_Y
    /\ i = 1
    /\ Column0(y_all) = <<7, 8>>
    /\ selfX = X_all
    /\ selfY = <<<<<<0 - 1, 1>>>>, <<<<1, 1>>>>>>

C17_NoRestartNoBatch ==
    /\ [](options.opt_restarts = 0 =>
            /\ sugLog = <<>>
            /\ X.none
            /\ pc # "evaluate"
            /\ i = 0
            /\ evals <= 1
            /\ (options.iterations >= 1 => pc # "done")
            /\ (err = "AssertionError" =>
                   /\ pc = "raised"
                   /\ evals = 1
                   /\ Len(X_all) = options.initial_size
                   /\ samples = options.samples
                   /\ stderr = <<>>))
    /\ [][(pc = "suggest" /\ options.opt_restarts = 0) =>
            (pc' = "raised" /\ err' = "AssertionError")]_vars
    /\ [](options.iterations = 0 =>
            /\ pc \notin IterationStages
            /\ err # "AssertionError"
            /\ (pc = "done" =>
                   /\ evals = 1
                   /\ Len(X_all) = options.initial_size
                   /\ Len(y_all) = options.initial_size))

\* the first iteration of a run without acquisition restarts has ended in
\* the final check of get_suggestion
C17_Witness ==
    /\ pc = "raised"
    /\ err = "AssertionError"
    /\ options.opt_restarts = 0
    /\ options.iterations = 1
    /\ options.model_restarts = 1
    /\ i = 0
    /\ evals = 1
    /\ Len(X_all) = 1
    /\ free_state = 1

====
